---- MODULE Spec2Model ----
(***************************************************************************)
(* Model of influx-monitor: the sensor state tracker                       *)
(* (src/monitor/sensor_state.py), the temperature tracker                  *)
(* (src/monitor/temperature.py) and the poll loop of the orchestrator      *)
(* (src/monitor/influx_monitor.py).                                        *)
(*                                                                         *)
(* Units.  Temperatures, the calibration offset and room_temp_threshold    *)
(* are integers in tenths of a degree (98.6 is 986).  Times are seconds.   *)
(* A rate of change is the fraction RateNum/RateDen in tenths of a degree  *)
(* per minute and is only ever compared by cross-multiplying, so that the  *)
(* comparisons rate < -1.0, rate > 0.5 and |rate| < stabilization_threshold*)
(* are exact.  stabilization_threshold is in tenths of a degree per minute.*)
(*                                                                         *)
(* A reading is [time, value]; the 'sensor' key of the dictionaries built  *)
(* in src/clients/influx.py:54-58 is never read and is left out, and so    *)
(* are SensorStateTracker.recent_temperatures and recent_room_temps, which *)
(* are assigned (sensor_state.py:47,53) and never read.  The time of a     *)
(* reading is counted from the first reading of its window: the code only  *)
(* reads the difference between the last and the first time.               *)
(*                                                                         *)
(* datetime.now() is read once per modelled call: the clock does not       *)
(* advance while a handler runs.                                           *)
(***************************************************************************)
EXTENDS Integers, Sequences, FiniteSets, TLC

VARIABLES
    now,                        \* the wall clock, seconds
    temp_config,                \* InfluxMonitor.temp_config: the fields of the TemperatureConfig object
    sensor_temp_config,         \* the fields read through SensorStateTracker.temp_config
    tracker_temp_config,        \* the fields read through TemperatureTracker.temp_config
    state,                      \* SensorStateTracker.state
    stabilization_mode,         \* SensorStateTracker.stabilization_mode
    stabilization_start_time,   \* SensorStateTracker.stabilization_start_time
    current_state,              \* TemperatureTracker.current_state
    previous_state,             \* TemperatureTracker.previous_state
    call,                       \* the last direct call on the sensor tracker (SensorSpec): arguments and result
    tcall,                      \* the last direct call on the temperature tracker (TemperatureSpec)
    gcall,                      \* the last direct call of update_config_from_grafana (GrafanaSpec)
    pi_online,                  \* InfluxMonitor.pi_online
    last_online_check,          \* InfluxMonitor.last_online_check
    last_grafana_refresh,       \* InfluxMonitor.last_grafana_refresh
    check_interval,             \* InfluxMonitor.check_interval
    offline_threshold,          \* InfluxMonitor.offline_threshold
    discord_client,             \* InfluxMonitor.discord_client is not None
    grafana_client,             \* InfluxMonitor.grafana_client is not None
    variables_cache,            \* GrafanaClient.variables_cache
    last_refresh_time,          \* GrafanaClient.last_refresh_time
    pc,                         \* where InfluxMonitor.run stands
    alerts,                     \* the alerts sent to Discord in the current iteration of run
    cycle                       \* what the current iteration of run has done

configVars == <<temp_config, sensor_temp_config, tracker_temp_config>>
trackerVars == <<state, stabilization_mode, stabilization_start_time>>
tempVars == <<current_state, previous_state>>
settingVars == <<check_interval, offline_threshold>>
onlineVars == <<pi_online, last_online_check>>
monitorVars == <<pi_online, last_online_check, last_grafana_refresh, check_interval,
                 offline_threshold, discord_client, grafana_client, variables_cache,
                 last_refresh_time, pc, alerts, cycle, gcall>>
vars == <<now, temp_config, sensor_temp_config, tracker_temp_config, state, stabilization_mode, stabilization_start_time,
          current_state, previous_state, call, tcall, pi_online, last_online_check,
          last_grafana_refresh, check_interval, offline_threshold, discord_client,
          grafana_client, variables_cache, last_refresh_time, pc, alerts, cycle,
          gcall>>

----------------------------------------------------------------------------
(* Bounds of the model *)

MaxLen == 2          \* longest primary (DS18B20) window
MaxRoomLen == 1      \* longest reference (SI7021) window
MaxTicks == 3        \* the clock stops after this many check intervals

----------------------------------------------------------------------------
(* constants.py *)

UNKNOWN == "UNKNOWN"
DISCONNECTED == "DISCONNECTED"
CONNECTED == "CONNECTED"
MISPOSITIONED == "MISPOSITIONED"
SensorState == {UNKNOWN, DISCONNECTED, CONNECTED, MISPOSITIONED}

COLD == "COLD"
COOL == "COOL"
AVERAGE == "AVERAGE"
WARM == "WARM"
HOT == "HOT"
TemperatureState == {COLD, COOL, AVERAGE, WARM, HOT}

None == "None"
NoTime == -1         \* stabilization_start_time = None

DEFAULT_CHECK_INTERVAL == 60
DEFAULT_OFFLINE_THRESHOLD == 300

\* TemperatureConfig() with the dataclass defaults
TemperatureConfig ==
    [cold_max |-> 965, cool_max |-> 970, average_max |-> 980, warm_max |-> 990,
     calibration_offset |-> 0,
     min_realistic_temp |-> 940,
     misposition_time_threshold |-> 5,
     stabilization_threshold |-> 1,
     min_stabilization_time |-> 60,
     room_temp_threshold |-> 100]

\* A configuration loaded from the environment (load_config): a calibration
\* offset of +0.5, one minute to reach a realistic temperature, a
\* stabilization threshold of 5.0 degrees per minute, two minutes of
\* stabilization and a room temperature threshold of 15.0 degrees.
EnvConfig ==
    [TemperatureConfig EXCEPT !.calibration_offset = 5,
                              !.misposition_time_threshold = 1,
                              !.stabilization_threshold = 50,
                              !.min_stabilization_time = 120,
                              !.room_temp_threshold = 150]

Configs == {TemperatureConfig, EnvConfig}

----------------------------------------------------------------------------
(* Reading windows, as get_recent_temperature_data returns them: sorted by time *)

PrimaryValues == {0, 900, 956, 986}
RoomValues == {0, 820}
Gaps == {0, 180}     \* seconds between two consecutive readings of a window

SeqsUpTo(S, n) == UNION {[1..k -> S] : k \in 0..n}

WindowOf(vals, gap) ==
    [i \in 1..Len(vals) |-> [time |-> (i - 1) * gap, value |-> vals[i]]]

PrimaryWindows ==
    {WindowOf(v, g) : v \in SeqsUpTo(PrimaryValues, MaxLen), g \in Gaps}

RoomWindows ==
    {WindowOf(v, 0) : v \in SeqsUpTo(RoomValues, MaxRoomLen)}

----------------------------------------------------------------------------
(* SensorStateTracker.determine_state *)

Abs(x) == IF x < 0 THEN -x ELSE x

Last(s) == s[Len(s)]

\* room_temp: None, or the value of the last reference reading
RoomTemp(si) ==
    IF Len(si) > 0 THEN [present |-> TRUE, value |-> Last(si).value]
                   ELSE [present |-> FALSE, value |-> 0]

\* latest_temp
LatestTemp(ds, cfg) == Last(ds).value + cfg.calibration_offset

\* (last time - first time), in seconds; time_diff is this over 60
TimeDiff(ds) == Last(ds).time - ds[1].time

\* rate_of_change = RateNum / RateDen tenths of a degree per minute
RateNumOfValues(ds) == 60 * (Last(ds).value - ds[1].value)

RateNum(ds) == IF TimeDiff(ds) > 0 THEN 60 * (Last(ds).value - ds[1].value) ELSE 0

RateDen(ds) == IF TimeDiff(ds) > 0 THEN TimeDiff(ds) ELSE 1

\* time_in_stabilization >= min_stabilization_time
StabilizedLongEnoughAlways(self, cfg, t) ==
    (t - self.stabilization_start_time) >= 0

StabilizedLongEnough(self, cfg, t) ==
    (t - self.stabilization_start_time) >= cfg.min_stabilization_time

\* abs(rate_of_change) < stabilization_threshold
RateSettledAlways(ds, cfg) == TRUE

RateSettled(ds, cfg) ==
    Abs(RateNum(ds)) < cfg.stabilization_threshold * RateDen(ds)

\* (now - stabilization_start_time) > misposition_time_threshold * 60
MispositionTimeExceededHours(self, cfg, t) ==
    (t - self.stabilization_start_time) > cfg.misposition_time_threshold * 3600

MispositionTimeExceeded(self, cfg, t) ==
    (t - self.stabilization_start_time) > cfg.misposition_time_threshold * 60

\* rate_of_change < -1.0
DroppingRapidlyTwo(ds) == RateNum(ds) < -20 * RateDen(ds)

DroppingRapidly(ds) == RateNum(ds) < -10 * RateDen(ds)

\* rate_of_change > 0.5
RisingRapidlyOne(ds) == RateNum(ds) > 10 * RateDen(ds)

RisingRapidly(ds) == RateNum(ds) > 5 * RateDen(ds)

\* room_temp and abs(latest_temp - room_temp) < room_temp_threshold:
\* None and 0 are both false in Python
CloseToRoom(latest, room, cfg) ==
    /\ room.present
    /\ room.value /= 0
    /\ Abs(latest - room.value) < cfg.room_temp_threshold

\* "Initial state determination", the last if of determine_state
InitialDetermination(latest, room, cfg) ==
    IF latest >= cfg.min_realistic_temp THEN CONNECTED
    ELSE IF CloseToRoom(latest, room, cfg) THEN DISCONNECTED
    ELSE UNKNOWN

\* The tracker as a record
Tracker(st, mode, start) ==
    [state |-> st, stabilization_mode |-> mode, stabilization_start_time |-> start]

\* if not ds18b20_temps: return DISCONNECTED
EmptyWindowResets(self) ==
    [ret |-> DISCONNECTED,
     stabilization_mode |-> FALSE,
     stabilization_start_time |-> NoTime]

EmptyWindow(self) ==
    [ret |-> DISCONNECTED,
     stabilization_mode |-> self.stabilization_mode,
     stabilization_start_time |-> self.stabilization_start_time]

\* self.stabilization_mode = False, on leaving stabilization
ModeAfterExitKept(self, exit) == self.stabilization_mode

ModeAfterExit(self, exit) == IF exit THEN FALSE ELSE self.stabilization_mode

\* if self.stabilization_mode
InStabilizationModeOnceStarted(self) == self.stabilization_start_time /= NoTime

InStabilizationMode(self) == self.stabilization_mode

\* if self.state != SensorState.UNKNOWN and len(ds18b20_temps) >= 2
HasPreviousStateAndOneReading(self, ds) ==
    self.state /= UNKNOWN /\ Len(ds) >= 1

HasPreviousStateAndReadings(self, ds) ==
    self.state /= UNKNOWN /\ Len(ds) >= 2

\* determine_state(ds18b20_temps, si7021_temps) at time t: the value returned
\* and the stabilization fields after the call
determine_state(self, cfg, ds, si, t) ==
    LET unchanged(r) == [ret |-> r,
                         stabilization_mode |-> self.stabilization_mode,
                         stabilization_start_time |-> self.stabilization_start_time]
    IN
    IF Len(ds) = 0 THEN EmptyWindow(self)
    ELSE
      LET room == RoomTemp(si)
          latest == LatestTemp(ds, cfg)
      IN
      IF HasPreviousStateAndReadings(self, ds) THEN
        LET exit == /\ InStabilizationMode(self)
                    /\ StabilizedLongEnough(self, cfg, t)
                    /\ RateSettled(ds, cfg)
            mode == ModeAfterExit(self, exit)
            result(r) == [ret |-> r,
                          stabilization_mode |-> mode,
                          stabilization_start_time |-> self.stabilization_start_time]
        IN
        IF exit /\ latest >= cfg.min_realistic_temp THEN result(CONNECTED)
        ELSE IF exit /\ MispositionTimeExceeded(self, cfg, t) THEN result(MISPOSITIONED)
        ELSE IF self.state = CONNECTED
                /\ (DroppingRapidly(ds) \/ CloseToRoom(latest, room, cfg))
             THEN result(DISCONNECTED)
        ELSE IF self.state = DISCONNECTED /\ RisingRapidly(ds)
             THEN [ret |-> CONNECTED,
                   stabilization_mode |-> TRUE,
                   stabilization_start_time |-> t]
        ELSE result(InitialDetermination(latest, room, cfg))
      ELSE unchanged(InitialDetermination(latest, room, cfg))

\* SensorStateTracker.update_state(new_state): the stored state and the value returned
UpdateStateReportsAlways(st, new_state) ==
    [state |-> new_state, ret |-> TRUE]

update_state(st, new_state) ==
    IF new_state /= st THEN [state |-> new_state, ret |-> TRUE]
                       ELSE [state |-> st, ret |-> FALSE]

----------------------------------------------------------------------------
(* TemperatureTracker *)

ClassifyTemperatureStrict(temp, cfg) ==
    IF temp < cfg.cold_max THEN COLD
    ELSE IF temp < cfg.cool_max THEN COOL
    ELSE IF temp < cfg.average_max THEN AVERAGE
    ELSE IF temp < cfg.warm_max THEN WARM
    ELSE HOT

classify_temperature(temp, cfg) ==
    IF temp <= cfg.cold_max THEN COLD
    ELSE IF temp <= cfg.cool_max THEN COOL
    ELSE IF temp <= cfg.average_max THEN AVERAGE
    ELSE IF temp <= cfg.warm_max THEN WARM
    ELSE HOT

\* calibrated_temp
CalibratedTempRaw(temperature, cfg) == temperature

CalibratedTemp(temperature, cfg) == temperature + cfg.calibration_offset

\* self.previous_state = self.current_state
SavePreviousSkipped(self) == self.previous_state

SavePrevious(self) == self.current_state

\* return self.previous_state is not None
ChangedAlways(previous) == TRUE

Changed(previous) == previous /= None

\* The temperature tracker as a record
TempTracker(current, previous) ==
    [current_state |-> current, previous_state |-> previous]

\* TemperatureTracker.update_state(temperature): the tracker after the call
\* and the value returned
TemperatureUpdateStateAlwaysSaving(self, cfg, temperature) ==
    LET new_state == classify_temperature(CalibratedTemp(temperature, cfg), cfg)
    IN [current_state |-> new_state,
        previous_state |-> SavePrevious(self),
        ret |-> Changed(SavePrevious(self)) /\ self.current_state /= new_state]

temperature_update_state(self, cfg, temperature) ==
    LET new_state == classify_temperature(CalibratedTemp(temperature, cfg), cfg)
    IN
    IF self.current_state /= new_state
    THEN [current_state |-> new_state,
          previous_state |-> SavePrevious(self),
          ret |-> Changed(SavePrevious(self))]
    ELSE [current_state |-> self.current_state,
          previous_state |-> self.previous_state,
          ret |-> FALSE]


----------------------------------------------------------------------------
(* GrafanaClient and InfluxMonitor.update_config_from_grafana.               *)
(*                                                                           *)
(* A value of the variables cache is [kind, val]: an int ("int", n), a       *)
(* float ("float", tenths) or a string that is not a number ("str", 0), as   *)
(* _refresh_variables leaves them (graphana.py:84-92); Absent stands for a   *)
(* name that is not in the dictionary.  The cache is the record of the       *)
(* names the monitor reads: the 'temp' dictionary, check_interval and        *)
(* offline_threshold.                                                        *)

StartTime == 1000    \* the clock at construction: time.time() is far above every interval

GRAFANA_REFRESH_INTERVAL == 300

ONLINE_CHECK_INTERVAL == 180

IntValue(n) == [kind |-> "int", val |-> n]
FloatValue(tenths) == [kind |-> "float", val |-> tenths]
StrValue == [kind |-> "str", val |-> 0]
Absent == [kind |-> "absent", val |-> 0]

ConfigFields == DOMAIN TemperatureConfig

\* the fields of TemperatureConfig that hold an int
IntFields == {"misposition_time_threshold", "min_stabilization_time"}

NoTempVariables == [f \in ConfigFields |-> Absent]

NoVariables ==
    [temp |-> NoTempVariables, check_interval |-> Absent, offline_threshold |-> Absent]

\* The dashboard: it overrides the calibration offset and gives a text for
\* min_stabilization_time and for the offline threshold
RemoteVariables ==
    { [temp |-> [NoTempVariables EXCEPT !.calibration_offset = FloatValue(-5),
                                        !.min_stabilization_time = StrValue],
       check_interval |-> Absent,
       offline_threshold |-> StrValue] }

Failed == [failed |-> TRUE, variables |-> NoVariables]
Fetched(v) == [failed |-> FALSE, variables |-> v]

\* What the request of _refresh_variables can do
FetchOutcomes == {Failed} \cup {Fetched(v) : v \in RemoteVariables}

\* int(float(v)) rounds towards zero
Truncate(tenths) == IF tenths >= 0 THEN tenths \div 10 ELSE -((-tenths) \div 10)

\* int(v), float(v) and int(float(v)) raise ValueError on a text
Raises(v) == v.kind = "str"

\* int(v): the int
ToInt(v) == IF v.kind = "float" THEN Truncate(v.val) ELSE v.val

\* float(v): the float, in tenths
ToFloat(v) == IF v.kind = "int" THEN 10 * v.val ELSE v.val

\* One turn of the loop of update_temperature_config: the field after it
UpdatedFieldUnchecked(cfg, temp_vars, f) ==
    LET v == temp_vars[f]
    IN IF v.kind = "absent" THEN cfg[f]
       ELSE IF f \in IntFields THEN ToInt(v)
       ELSE ToFloat(v)

UpdatedField(cfg, temp_vars, f) ==
    LET v == temp_vars[f]
    IN IF v.kind = "absent" \/ Raises(v) THEN cfg[f]
       ELSE IF f \in IntFields THEN ToInt(v)
       ELSE ToFloat(v)

\* if not temp_vars
EmptyDict(temp_vars) == \A f \in DOMAIN temp_vars : temp_vars[f].kind = "absent"

\* GrafanaClient.update_temperature_config on the variables 'temp'
update_temperature_config(cfg, temp_vars) ==
    IF EmptyDict(temp_vars) THEN cfg
    ELSE [f \in ConfigFields |-> UpdatedField(cfg, temp_vars, f)]

\* if not self.variables_cache
EmptyCache(cache) ==
    /\ EmptyDict(cache.temp)
    /\ cache.check_interval.kind = "absent"
    /\ cache.offline_threshold.kind = "absent"

\* GrafanaClient.get_variables at time t, the request ending as f: the
\* client after the call and whether the call raises
get_variables(g, t, f) ==
    IF t - g.last_refresh_time > GRAFANA_REFRESH_INTERVAL
    THEN IF f.failed
         THEN [variables_cache |-> g.variables_cache,
               last_refresh_time |-> g.last_refresh_time,
               raises |-> EmptyCache(g.variables_cache)]
         ELSE [variables_cache |-> f.variables,
               last_refresh_time |-> t,
               raises |-> FALSE]
    ELSE [variables_cache |-> g.variables_cache,
          last_refresh_time |-> g.last_refresh_time,
          raises |-> FALSE]

\* InfluxMonitor.update_config_from_grafana at time t, with a Grafana client;
\* m holds temp_config, check_interval, offline_threshold and the client's
\* cache, f1 and f2 are the outcomes of the requests of its (at most) two
\* get_variables.  The trackers hold the same TemperatureConfig object, so
\* lines 209-210 assign what they already reference.
update_config_from_grafana(m, t, f1, f2) ==
    LET g1 == get_variables(m, t, f1)
        cfg == update_temperature_config(m.temp_config, g1.variables_cache.temp)
        g2 == get_variables(g1, t, f2)
        variables == g2.variables_cache
        after1 == [m EXCEPT !.variables_cache = g1.variables_cache,
                            !.last_refresh_time = g1.last_refresh_time]
        after2 == [m EXCEPT !.temp_config = cfg,
                            !.variables_cache = g2.variables_cache,
                            !.last_refresh_time = g2.last_refresh_time]
    IN
    IF g1.raises THEN after1
    ELSE IF g2.raises THEN after2
    ELSE IF Raises(variables.check_interval) THEN after2
    ELSE LET after3 ==
                 IF variables.check_interval.kind = "absent" THEN after2
                 ELSE [after2 EXCEPT !.check_interval = ToInt(variables.check_interval)]
         IN IF Raises(variables.offline_threshold) THEN after3
            ELSE IF variables.offline_threshold.kind = "absent" THEN after3
            ELSE [after3 EXCEPT !.offline_threshold = ToInt(variables.offline_threshold)]

\* Lines 209-210 are reached: no exception left the try block and updated is
\* true, that is a field of the configuration or a setting took another value
TrackersReassigned(m, t, f1, f2) ==
    LET g1 == get_variables(m, t, f1)
        g2 == get_variables(g1, t, f2)
        variables == g2.variables_cache
        r == update_config_from_grafana(m, t, f1, f2)
    IN /\ ~g1.raises
       /\ ~g2.raises
       /\ ~Raises(variables.check_interval)
       /\ ~Raises(variables.offline_threshold)
       /\ \/ r.temp_config /= m.temp_config
          \/ r.check_interval /= m.check_interval
          \/ r.offline_threshold /= m.offline_threshold

\* What a tracker reads through self.temp_config once the monitor's
\* TemperatureConfig holds the fields written: the trackers were given the
\* monitor's object itself (influx_monitor.py:44-45), setattr writes into
\* that object (graphana.py:159), and lines 209-210 assign the same object
TrackerConfigOfCopy(view, written, reassigned) ==
    IF reassigned THEN written ELSE view

TrackerConfig(view, written, reassigned) == written

----------------------------------------------------------------------------
(* The state after construction *)

\* flag_before: the stabilization flag before the last determine_state, which
\* the record of the update_state that follows it keeps
NoCall ==
    [op |-> "none", ds |-> <<>>, si |-> <<>>, t |-> 0,
     pre |-> Tracker(UNKNOWN, FALSE, NoTime), ret |-> None, changed |-> FALSE,
     flag_before |-> FALSE]

\* get_alert_info returns None
NoAlertInfo == [kind |-> "absent"]

\* bands: the bands update_state has classified since construction
NoTCall ==
    [op |-> "none", temperature |-> 0, cfg |-> TemperatureConfig,
     pre_current |-> None, pre_previous |-> None,
     ret |-> FALSE, prev_ret |-> FALSE, info |-> NoAlertInfo,
     bands |-> {}]

\* No call yet.  The record of a call holds pre, the monitor and the client
\* before the call, and temp_vars and variables, the dictionaries the call
\* converted its values from
NoGCall == [op |-> "none"]

\* checked: the liveness query was issued, and online_status is what it
\* returned; queried: the reading windows were queried; evaluated:
\* determine_state returned, on a window ending with latest_temp; raised: an
\* exception left process_temperature_data; config_written: the refresh of
\* the iteration wrote a field of the TemperatureConfig; trackers_reassigned:
\* it reached influx_monitor.py:209-210; the pre_ fields are the monitor's
\* and the trackers' fields when the iteration began
NoCycle ==
    [evaluated |-> FALSE, new_sensor_state |-> None, state_changed |-> FALSE,
     pre_state |-> UNKNOWN, pre_current |-> None, pre_previous |-> None,
     temp_updated |-> FALSE,
     pre_stabilization_mode |-> FALSE,
     pre_pi_online |-> FALSE, pre_last_online_check |-> 0,
     checked |-> FALSE, online_status |-> FALSE,
     queried |-> FALSE, latest_temp |-> 0, raised |-> FALSE,
     config_written |-> FALSE, trackers_reassigned |-> FALSE]

\* SensorStateTracker.__init__, TemperatureTracker.__init__ and the state
\* variables of InfluxMonitor.__init__
Constructed ==
    /\ now = StartTime
    /\ state = UNKNOWN
    /\ stabilization_mode = FALSE
    /\ stabilization_start_time = NoTime
    /\ current_state = None
    /\ previous_state = None
    /\ call = NoCall
    /\ tcall = NoTCall
    /\ gcall = NoGCall
    /\ pi_online = FALSE
    /\ last_online_check = StartTime - 600
    /\ last_grafana_refresh = 0
    /\ pc = "refresh"
    /\ alerts = <<>>
    /\ cycle = NoCycle

\* SensorStateTracker(self.temp_config), TemperatureTracker(self.temp_config)
TrackersConstructed ==
    /\ sensor_temp_config = temp_config
    /\ tracker_temp_config = temp_config

\* The trackers alone, on a configuration load_config produced, with no
\* Discord and no Grafana client
TrackerInit ==
    /\ Constructed
    /\ temp_config \in Configs
    /\ check_interval = DEFAULT_CHECK_INTERVAL
    /\ offline_threshold = DEFAULT_OFFLINE_THRESHOLD
    /\ discord_client = FALSE
    /\ grafana_client = FALSE
    /\ variables_cache = NoVariables
    /\ last_refresh_time = 0
    /\ TrackersConstructed

\* InfluxMonitor.__init__: load_config, then init_clients, which with a Grafana
\* client fetches the variables and applies them (the fetch fails, or yields
\* some RemoteVariables), then the trackers and the state variables
MonitorConstructed ==
    /\ Constructed
    /\ discord_client \in BOOLEAN
    /\ \/ /\ grafana_client = FALSE
          /\ temp_config \in Configs
          /\ check_interval = DEFAULT_CHECK_INTERVAL
          /\ offline_threshold = DEFAULT_OFFLINE_THRESHOLD
          /\ variables_cache = NoVariables
          /\ last_refresh_time = 0
       \/ /\ grafana_client = TRUE
          /\ \E cfg \in Configs, f1 \in FetchOutcomes, f2 \in FetchOutcomes :
                LET r == update_config_from_grafana(
                             [temp_config |-> cfg,
                              check_interval |-> DEFAULT_CHECK_INTERVAL,
                              offline_threshold |-> DEFAULT_OFFLINE_THRESHOLD,
                              variables_cache |-> NoVariables,
                              last_refresh_time |-> 0],
                             StartTime, f1, f2)
                IN /\ temp_config = r.temp_config
                   /\ check_interval = r.check_interval
                   /\ offline_threshold = r.offline_threshold
                   /\ variables_cache = r.variables_cache
                   /\ last_refresh_time = r.last_refresh_time
    /\ TrackersConstructed


\* InfluxMonitor.__init__ when a connection setting of InfluxDB is missing:
\* init_clients raises before any client is built, after load_config.  The
\* fields that are never assigned hold their initial values (the trackers
\* are not built: their configuration is written as the one load_config
\* produced); discord_client tells whether DISCORD_WEBHOOK_URL is set.
StartupFailed ==
    /\ now = StartTime
    /\ state = UNKNOWN
    /\ stabilization_mode = FALSE
    /\ stabilization_start_time = NoTime
    /\ current_state = None
    /\ previous_state = None
    /\ call = NoCall
    /\ tcall = NoTCall
    /\ gcall = NoGCall
    /\ pi_online = FALSE
    /\ last_online_check = StartTime - 600
    /\ last_grafana_refresh = 0
    /\ temp_config \in Configs
    /\ check_interval = DEFAULT_CHECK_INTERVAL
    /\ offline_threshold = DEFAULT_OFFLINE_THRESHOLD
    /\ discord_client \in BOOLEAN
    /\ grafana_client = FALSE
    /\ variables_cache = NoVariables
    /\ last_refresh_time = 0
    /\ pc = "startup_error"
    /\ alerts = <<>>
    /\ cycle = NoCycle
    /\ TrackersConstructed

\* main(): monitor = InfluxMonitor(), which returns or raises
Init == MonitorConstructed \/ StartupFailed

----------------------------------------------------------------------------
(* Alerts: what DiscordClient.send_alert is called with *)

DISCORD_COLORS ==
    [green |-> 65280, red |-> 16711680, blue |-> 255,
     cyan |-> 65535, yellow |-> 16776960, orange |-> 16753920]

Alert(kind, title, text, values, color) ==
    [kind |-> kind, title |-> title,
     description |-> [text |-> text, values |-> values], color |-> color]

\* DiscordClient.send_raspberry_pi_alert(is_online)
RaspberryPiAlert(is_online) ==
    IF is_online
    THEN Alert("raspberry_pi", <<"Raspberry Pi is", "ONLINE">>,
               "The monitoring system is now sending data.", <<>>,
               DISCORD_COLORS.green)
    ELSE Alert("raspberry_pi", <<"Raspberry Pi is", "OFFLINE">>,
               "No data received in the last few minutes!", <<>>,
               DISCORD_COLORS.red)

\* DiscordClient.send_error_alert(str(e))
ErrorAlert ==
    Alert("error", <<"Monitor Error">>,
          "The temperature monitoring service encountered an error:", <<>>,
          DISCORD_COLORS.red)

\* send_sensor_state_alert with the description and the colour of the state
SensorStateAlert(new_sensor_state) ==
    Alert("sensor_state", <<"Sensor", new_sensor_state>>,
          CASE new_sensor_state = CONNECTED ->
                 "Temperature sensor is now properly connected and monitoring body temperature."
            [] new_sensor_state = DISCONNECTED ->
                 "Temperature sensor has been disconnected or removed from body."
            [] new_sensor_state = MISPOSITIONED ->
                 "Temperature sensor appears to be mispositioned. Please check placement."
            [] OTHER -> "",
          <<>>,
          CASE new_sensor_state = CONNECTED -> DISCORD_COLORS.green
            [] new_sensor_state = DISCONNECTED -> DISCORD_COLORS.orange
            [] new_sensor_state = MISPOSITIONED -> DISCORD_COLORS.yellow
            [] OTHER -> DISCORD_COLORS.blue)

\* state_info[band] of get_alert_info; the values are the numbers the
\* description embeds
AlertInfoOf(band, cfg, temperature) ==
    CASE band = COLD ->
           Alert("temperature", <<"Temperature is", COLD>>, "below",
                 <<temperature, cfg.cold_max>>, DISCORD_COLORS.blue)
      [] band = COOL ->
           Alert("temperature", <<"Temperature is", COOL>>, "range",
                 <<temperature, cfg.cold_max, cfg.cool_max>>, DISCORD_COLORS.cyan)
      [] band = AVERAGE ->
           Alert("temperature", <<"Temperature is", AVERAGE>>, "range",
                 <<temperature, cfg.cool_max, cfg.average_max>>, DISCORD_COLORS.green)
      [] band = WARM ->
           Alert("temperature", <<"Temperature is", WARM>>, "range",
                 <<temperature, cfg.average_max, cfg.warm_max>>, DISCORD_COLORS.yellow)
      [] band = HOT ->
           Alert("temperature", <<"Temperature is", HOT>>, "above",
                 <<temperature, cfg.warm_max>>, DISCORD_COLORS.red)

\* TemperatureTracker.get_alert_info(temperature)
GetAlertInfoOfArgument(current, cfg, temperature) ==
    IF current = None THEN NoAlertInfo
    ELSE AlertInfoOf(classify_temperature(CalibratedTemp(temperature, cfg), cfg),
                     cfg, temperature)

get_alert_info(current, cfg, temperature) ==
    IF current = None THEN NoAlertInfo
    ELSE AlertInfoOf(current, cfg, temperature)

----------------------------------------------------------------------------
(* InfluxMonitor.run: one action per step of an iteration of the loop.       *)
(* pc: "refresh" (top of the loop), "check", "process", "sleep",             *)
(* "cancelled" once the task is cancelled, "startup_error" when the          *)
(* constructor has raised and "terminated" once main has raised.             *)

\* current_time - self.last_grafana_refresh > refresh_interval
RefreshDue(t, last) == t - last > GRAFANA_REFRESH_INTERVAL

\* The configuration refresh at the top of the loop; f1 and f2 are the
\* outcomes of the requests to Grafana, if any is made
RefreshStep(f1, f2) ==
    LET m == [temp_config |-> temp_config,
              check_interval |-> check_interval,
              offline_threshold |-> offline_threshold,
              variables_cache |-> variables_cache,
              last_refresh_time |-> last_refresh_time]
        due == grafana_client /\ RefreshDue(now, last_grafana_refresh)
        r == update_config_from_grafana(m, now, f1, f2)
        reassigned == TrackersReassigned(m, now, f1, f2)
    IN
    /\ pc = "refresh"
    /\ pc' = "check"
    /\ alerts' = <<>>
    /\ cycle' = [NoCycle EXCEPT !.pre_state = state,
                                !.pre_current = current_state,
                                !.pre_previous = previous_state,
                                !.pre_stabilization_mode = stabilization_mode,
                                !.pre_pi_online = pi_online,
                                !.pre_last_online_check = last_online_check,
                                !.config_written =
                                    due /\ r.temp_config /= temp_config,
                                !.trackers_reassigned = due /\ reassigned]
    /\ IF due
       THEN /\ temp_config' = r.temp_config
            /\ sensor_temp_config' =
                   TrackerConfig(sensor_temp_config, r.temp_config, reassigned)
            /\ tracker_temp_config' =
                   TrackerConfig(tracker_temp_config, r.temp_config, reassigned)
            /\ check_interval' = r.check_interval
            /\ offline_threshold' = r.offline_threshold
            /\ variables_cache' = r.variables_cache
            /\ last_refresh_time' = r.last_refresh_time
            /\ last_grafana_refresh' = now
       ELSE UNCHANGED <<configVars, check_interval, offline_threshold,
                        variables_cache, last_refresh_time, last_grafana_refresh>>
    /\ UNCHANGED <<now, trackerVars, tempVars, call, tcall, gcall, onlineVars,
                   discord_client, grafana_client>>

\* (datetime.now() - self.last_online_check).total_seconds() < 180
OnlineCheckSkippedMinute(t, last) == t - last < DEFAULT_CHECK_INTERVAL

OnlineCheckSkipped(t, last) == t - last < ONLINE_CHECK_INTERVAL

\* online_status != self.pi_online, and self.discord_client under it
ShouldAlertRaspberryPiAlways(online_status, stored, discord) == discord

ShouldAlertRaspberryPi(online_status, stored, discord) ==
    online_status /= stored /\ discord

\* if pi_online: await self.process_temperature_data()
ShouldProcessAlways(online) == TRUE

ShouldProcess(online) == online

\* check_raspberry_pi_online; online_status is what check_for_recent_data
\* returns if it is called.  The flag returned decides whether the data is
\* processed.
CheckOnlineStep(online_status) ==
    /\ pc = "check"
    /\ IF OnlineCheckSkipped(now, last_online_check)
       THEN UNCHANGED <<pi_online, last_online_check, alerts, cycle>>
       ELSE /\ last_online_check' = now
            /\ pi_online' = online_status
            /\ alerts' = IF ShouldAlertRaspberryPi(online_status, pi_online,
                                                   discord_client)
                         THEN Append(alerts, RaspberryPiAlert(online_status))
                         ELSE alerts
            /\ cycle' = [cycle EXCEPT !.checked = TRUE,
                                      !.online_status = online_status]
    /\ pc' = IF ShouldProcess(pi_online') THEN "process" ELSE "sleep"
    /\ UNCHANGED <<now, configVars, trackerVars, tempVars, call, tcall, gcall,
                   settingVars, discord_client, grafana_client, variables_cache,
                   last_refresh_time, last_grafana_refresh>>

\* state_changed and self.discord_client and self.sensor_tracker.state != UNKNOWN
ShouldAlertSensorStateAlways(state_changed, discord, stored) == discord

ShouldAlertSensorState(state_changed, discord, stored) ==
    state_changed /\ discord /\ stored /= UNKNOWN

\* new_sensor_state == CONNECTED and not is_in_stabilization_mode()
ShouldUpdateTemperatureStabilizing(new_sensor_state, stabilizing) ==
    new_sensor_state = CONNECTED

ShouldUpdateTemperature(new_sensor_state, stabilizing) ==
    new_sensor_state = CONNECTED /\ ~stabilizing

\* process_temperature_data; ds and si are what the two queries return (an
\* empty window when a query fails or finds nothing)
ProcessStep(ds, si) ==
    /\ pc = "process"
    /\ pc' = "sleep"
    /\ IF Len(ds) = 0
       THEN /\ cycle' = [cycle EXCEPT !.queried = TRUE]
            /\ UNCHANGED <<trackerVars, tempVars, alerts>>
       ELSE LET self == Tracker(state, stabilization_mode, stabilization_start_time)
                r == determine_state(self, sensor_temp_config, ds, si, now)
                u == update_state(state, r.ret)
                latest_temp == Last(ds).value
                temp == ShouldUpdateTemperature(r.ret, r.stabilization_mode)
                tr == temperature_update_state(
                          TempTracker(current_state, previous_state),
                          tracker_temp_config, latest_temp)
                sensor_alert ==
                    IF ShouldAlertSensorState(u.ret, discord_client, u.state)
                    THEN <<SensorStateAlert(r.ret)>> ELSE <<>>
                alert_info == get_alert_info(tr.current_state, tracker_temp_config,
                                             latest_temp)
                temperature_alert ==
                    IF temp /\ tr.ret /\ discord_client /\ alert_info /= NoAlertInfo
                    THEN <<alert_info>>
                    ELSE <<>>
            IN /\ stabilization_mode' = r.stabilization_mode
               /\ stabilization_start_time' = r.stabilization_start_time
               /\ state' = u.state
               /\ current_state' = IF temp THEN tr.current_state ELSE current_state
               /\ previous_state' = IF temp THEN tr.previous_state ELSE previous_state
               /\ alerts' = alerts \o sensor_alert \o temperature_alert
               /\ cycle' = [cycle EXCEPT !.queried = TRUE,
                                         !.latest_temp = latest_temp,
                                         !.evaluated = TRUE,
                                         !.new_sensor_state = r.ret,
                                         !.state_changed = u.ret,
                                         !.temp_updated = temp]
    /\ UNCHANGED <<now, configVars, call, tcall, gcall, onlineVars, settingVars,
                   discord_client, grafana_client, variables_cache,
                   last_refresh_time, last_grafana_refresh>>

\* await asyncio.sleep(self.check_interval), then the next iteration
SleepStep ==
    /\ pc = "sleep"
    /\ now < StartTime + MaxTicks * DEFAULT_CHECK_INTERVAL
    /\ now' = now + check_interval
    /\ pc' = "refresh"
    /\ UNCHANGED <<configVars, trackerVars, tempVars, call, tcall, gcall, onlineVars,
                   settingVars, discord_client, grafana_client, variables_cache,
                   last_refresh_time, last_grafana_refresh, alerts, cycle>>

\* The task is cancelled while it sleeps: except asyncio.CancelledError
CancelWithErrorAlert ==
    /\ pc = "sleep"
    /\ pc' = "cancelled"
    /\ alerts' = Append(alerts, ErrorAlert)
    /\ UNCHANGED <<now, configVars, trackerVars, tempVars, call, tcall, gcall, onlineVars,
                   settingVars, discord_client, grafana_client, variables_cache,
                   last_refresh_time, last_grafana_refresh, cycle>>

Cancel ==
    /\ pc = "sleep"
    /\ pc' = "cancelled"
    /\ UNCHANGED <<now, configVars, trackerVars, tempVars, call, tcall, gcall, onlineVars,
                   settingVars, discord_client, grafana_client, variables_cache,
                   last_refresh_time, last_grafana_refresh, alerts, cycle>>

\* An exception leaves process_temperature_data: the last primary reading has
\* no value (record.get_value() is None), so that determine_state raises
\* TypeError at sensor_state.py:56, before it assigns any field read here.
\* run sends the error alert, if there is a Discord client, and raises; main
\* logs and raises.
ProcessRaises ==
    /\ pc = "process"
    /\ pc' = "terminated"
    /\ alerts' = IF discord_client THEN Append(alerts, ErrorAlert) ELSE alerts
    /\ cycle' = [cycle EXCEPT !.queried = TRUE, !.raised = TRUE]
    /\ UNCHANGED <<now, configVars, trackerVars, tempVars, call, tcall, gcall,
                   onlineVars, settingVars, discord_client, grafana_client,
                   variables_cache, last_refresh_time, last_grafana_refresh>>

\* main.py:29-31 when the constructor has raised: the error is logged and
\* raised again
MainExit ==
    /\ pc = "startup_error"
    /\ pc' = "terminated"
    /\ UNCHANGED <<now, configVars, trackerVars, tempVars, call, tcall, gcall,
                   onlineVars, settingVars, discord_client, grafana_client,
                   variables_cache, last_refresh_time, last_grafana_refresh,
                   alerts, cycle>>

Next ==
    \/ \E f1 \in FetchOutcomes, f2 \in FetchOutcomes : RefreshStep(f1, f2)
    \/ \E online_status \in BOOLEAN : CheckOnlineStep(online_status)
    \/ \E ds \in PrimaryWindows, si \in RoomWindows : ProcessStep(ds, si)
    \/ ProcessRaises
    \/ SleepStep
    \/ Cancel
    \/ MainExit

Spec == Init /\ [][Next]_vars

----------------------------------------------------------------------------
(* The sensor tracker called directly: any window, at any time.  The value   *)
(* determine_state returns is either applied by update_state, as the        *)
(* monitor does, or dropped by the caller, before the next call.            *)

CallDetermineStateApplying(ds, si) ==
    call.op /= "determine_state" /\
    LET self == Tracker(state, stabilization_mode, stabilization_start_time)
        r == determine_state(self, sensor_temp_config, ds, si, now)
    IN
    /\ stabilization_mode' = r.stabilization_mode
    /\ stabilization_start_time' = r.stabilization_start_time
    /\ state' = r.ret
    /\ call' = [op |-> "determine_state", ds |-> ds, si |-> si, t |-> now,
                pre |-> self, ret |-> r.ret, changed |-> FALSE,
                flag_before |-> self.stabilization_mode]
    /\ UNCHANGED <<now, configVars, tempVars, tcall, monitorVars>>

CallDetermineState(ds, si) ==
    call.op /= "determine_state" /\
    LET self == Tracker(state, stabilization_mode, stabilization_start_time)
        r == determine_state(self, sensor_temp_config, ds, si, now)
    IN
    /\ stabilization_mode' = r.stabilization_mode
    /\ stabilization_start_time' = r.stabilization_start_time
    /\ call' = [op |-> "determine_state", ds |-> ds, si |-> si, t |-> now,
                pre |-> self, ret |-> r.ret, changed |-> FALSE,
                flag_before |-> self.stabilization_mode]
    /\ UNCHANGED <<now, configVars, state, tempVars, tcall, monitorVars>>

\* update_state with the state the last determine_state returned
\* (influx_monitor.py:254-255)
CallUpdateState ==
    /\ call.op = "determine_state"
    /\ LET r == update_state(state, call.ret)
       IN /\ state' = r.state
          /\ call' = [NoCall EXCEPT !.op = "update_state",
                                    !.pre = Tracker(state, stabilization_mode,
                                                    stabilization_start_time),
                                    !.ret = call.ret,
                                    !.changed = r.ret,
                                    !.flag_before = call.flag_before]
    /\ UNCHANGED <<now, configVars, stabilization_mode, stabilization_start_time,
                   tempVars, tcall, monitorVars>>

\* The caller drops the state determine_state returned
DropResult ==
    /\ call.op = "determine_state"
    /\ call' = NoCall
    /\ UNCHANGED <<now, configVars, trackerVars, tempVars, tcall, monitorVars>>

\* Time passes between two calls
AdvanceClock ==
    /\ call.op /= "determine_state"
    /\ now < StartTime + MaxTicks * DEFAULT_CHECK_INTERVAL
    /\ now' = now + DEFAULT_CHECK_INTERVAL
    /\ UNCHANGED <<configVars, trackerVars, tempVars, call, tcall, monitorVars>>

SensorNext ==
    \/ \E ds \in PrimaryWindows, si \in RoomWindows : CallDetermineState(ds, si)
    \/ CallUpdateState
    \/ DropResult
    \/ AdvanceClock

SensorSpec == TrackerInit /\ [][SensorNext]_vars

----------------------------------------------------------------------------
(* The sensor tracker in the poll loop, for as long as the loop runs: in    *)
(* every iteration process_temperature_data either evaluates a non-empty    *)
(* primary window and applies the result (influx_monitor.py:253-255) or     *)
(* evaluates nothing (the source is offline or the window is empty), and    *)
(* the loop then sleeps for the check interval.  determine_state reads the  *)
(* clock only in now - stabilization_start_time, and compares that with     *)
(* min_stabilization_time and misposition_time_threshold: the sleep is      *)
(* written as moving the start time back while the clock stays, and a time  *)
(* in stabilization above every threshold is kept at ElapsedCap, so that    *)
(* the loop runs forever in finitely many states.                           *)

Max(a, b) == IF a >= b THEN a ELSE b

\* The longest time a configuration compares the time in stabilization with
LongestThreshold ==
    CHOOSE n \in {Max(cfg.min_stabilization_time,
                      cfg.misposition_time_threshold * 60) : cfg \in Configs} :
        \A cfg \in Configs : /\ n >= cfg.min_stabilization_time
                              /\ n >= cfg.misposition_time_threshold * 60

ElapsedCap == LongestThreshold + DEFAULT_CHECK_INTERVAL

\* ds18b20_temps is not empty: determine_state, on what the queries returned
PollEvaluate(ds, si) ==
    /\ call.op = "none"
    /\ Len(ds) > 0
    /\ CallDetermineState(ds, si)

\* update_state with the state determine_state returned
PollUpdate == CallUpdateState

\* The iteration evaluates nothing: the source is offline, or the primary
\* window is empty (influx_monitor.py:249-251)
PollSkip ==
    /\ call.op = "none"
    /\ call' = [NoCall EXCEPT !.op = "skipped"]
    /\ UNCHANGED <<now, configVars, trackerVars, tempVars, tcall, monitorVars>>

\* await asyncio.sleep(self.check_interval)
PollSleep ==
    /\ call.op \in {"update_state", "skipped"}
    /\ call' = NoCall
    /\ stabilization_start_time' =
          IF stabilization_start_time = NoTime THEN NoTime
          ELSE Max(stabilization_start_time - check_interval, now - ElapsedCap)
    /\ UNCHANGED <<now, configVars, state, stabilization_mode, tempVars, tcall,
                   monitorVars>>

PollNext ==
    \/ \E ds \in PrimaryWindows, si \in RoomWindows : PollEvaluate(ds, si)
    \/ PollUpdate
    \/ PollSkip
    \/ PollSleep

\* run loops until it is cancelled: while it is not, the next step is taken
PollSpec == TrackerInit /\ [][PollNext]_vars /\ WF_vars(PollNext)

----------------------------------------------------------------------------
(* The temperature tracker called directly, with any reading; between two   *)
(* calls a configuration refresh may set other values in the shared         *)
(* TemperatureConfig (graphana.py:159).                                     *)

TemperatureInputs == {960, 965, 966, 970, 975, 980, 985, 990, 995}

CallTemperatureUpdate(temperature) ==
    LET self == TempTracker(current_state, previous_state)
        r == temperature_update_state(self, tracker_temp_config, temperature)
    IN
    /\ current_state' = r.current_state
    /\ previous_state' = r.previous_state
    /\ tcall' = [op |-> "update_state", temperature |-> temperature,
                 cfg |-> tracker_temp_config,
                 pre_current |-> current_state, pre_previous |-> previous_state,
                 ret |-> r.ret,
                 prev_ret |-> tcall.ret,
                 info |-> NoAlertInfo,
                 bands |-> tcall.bands \cup
                     {classify_temperature(
                          CalibratedTemp(temperature, tracker_temp_config),
                          tracker_temp_config)}]
    /\ UNCHANGED <<now, configVars, trackerVars, call, monitorVars>>

\* get_alert_info(temperature) on the tracker as it is; info is what it
\* returns, ret and prev_ret stay those of the last update_state
CallGetAlertInfo(temperature) ==
    /\ tcall.op /= "get_alert_info"
    /\ tcall' = [tcall EXCEPT
                    !.op = "get_alert_info",
                    !.temperature = temperature,
                    !.cfg = tracker_temp_config,
                    !.pre_current = current_state,
                    !.pre_previous = previous_state,
                    !.info = get_alert_info(current_state, tracker_temp_config,
                                            temperature)]
    /\ UNCHANGED <<now, configVars, trackerVars, tempVars, call, monitorVars>>

\* A configuration whose band boundaries a dashboard has overridden
DashboardConfig ==
    [TemperatureConfig EXCEPT !.cold_max = 960, !.cool_max = 966,
                              !.average_max = 975, !.warm_max = 985]

\* The values the shared TemperatureConfig can take between two calls
TemperatureConfigs == Configs \cup {DashboardConfig}

ConfigChanged(cfg) ==
    /\ cfg /= temp_config
    /\ temp_config' = cfg
    /\ \E reassigned \in BOOLEAN :
          /\ sensor_temp_config' = TrackerConfig(sensor_temp_config, cfg, reassigned)
          /\ tracker_temp_config' = TrackerConfig(tracker_temp_config, cfg, reassigned)
    /\ UNCHANGED <<now, trackerVars, tempVars, call, tcall, monitorVars>>

TemperatureNext ==
    \/ \E temperature \in TemperatureInputs : CallTemperatureUpdate(temperature)
    \/ \E temperature \in TemperatureInputs : CallGetAlertInfo(temperature)
    \/ \E cfg \in TemperatureConfigs : ConfigChanged(cfg)

TemperatureSpec == TrackerInit /\ [][TemperatureNext]_vars

----------------------------------------------------------------------------
(* update_config_from_grafana called directly on a monitor with a Grafana    *)
(* client that has fetched nothing yet: the first call is the one of         *)
(* init_clients, the next ones those of run.  Between two calls time passes. *)

\* A dashboard with a text for every variable the monitor reads but
\* offline_threshold
TextDashboard ==
    [temp |-> [f \in ConfigFields |-> StrValue],
     check_interval |-> StrValue,
     offline_threshold |-> IntValue(600)]

\* A dashboard with values of the other type than the field's, a text for
\* min_stabilization_time and a text for offline_threshold
MixedDashboard ==
    [temp |-> [NoTempVariables EXCEPT !.cold_max = IntValue(96),
                                      !.calibration_offset = FloatValue(-5),
                                      !.misposition_time_threshold = FloatValue(25),
                                      !.min_stabilization_time = StrValue],
     check_interval |-> IntValue(120),
     offline_threshold |-> StrValue]

\* A dashboard that overrides the calibration offset and the offline
\* threshold and gives a text for min_stabilization_time
SettingsDashboard ==
    [temp |-> [NoTempVariables EXCEPT !.calibration_offset = FloatValue(-5),
                                      !.min_stabilization_time = StrValue],
     check_interval |-> Absent,
     offline_threshold |-> IntValue(600)]

Dashboards ==
    RemoteVariables \cup {NoVariables, TextDashboard, MixedDashboard, SettingsDashboard}

GrafanaOutcomes == {Failed} \cup {Fetched(v) : v \in Dashboards}

GrafanaInit ==
    /\ Constructed
    /\ temp_config \in Configs
    /\ check_interval = DEFAULT_CHECK_INTERVAL
    /\ offline_threshold = DEFAULT_OFFLINE_THRESHOLD
    /\ discord_client = FALSE
    /\ grafana_client = TRUE
    /\ variables_cache = NoVariables
    /\ last_refresh_time = 0
    /\ TrackersConstructed

CallUpdateConfig(f1, f2) ==
    /\ gcall.op = "none"
    /\ LET m == [temp_config |-> temp_config,
                 check_interval |-> check_interval,
                 offline_threshold |-> offline_threshold,
                 variables_cache |-> variables_cache,
                 last_refresh_time |-> last_refresh_time]
           r == update_config_from_grafana(m, now, f1, f2)
           g1 == get_variables(m, now, f1)
           g2 == get_variables(g1, now, f2)
           reassigned == TrackersReassigned(m, now, f1, f2)
       IN /\ temp_config' = r.temp_config
          /\ sensor_temp_config' =
                 TrackerConfig(sensor_temp_config, r.temp_config, reassigned)
          /\ tracker_temp_config' =
                 TrackerConfig(tracker_temp_config, r.temp_config, reassigned)
          /\ check_interval' = r.check_interval
          /\ offline_threshold' = r.offline_threshold
          /\ variables_cache' = r.variables_cache
          /\ last_refresh_time' = r.last_refresh_time
          /\ gcall' = [op |-> "update_config_from_grafana",
                       pre |-> m,
                       temp_vars |-> IF g1.raises THEN NoTempVariables
                                     ELSE g1.variables_cache.temp,
                       variables |-> IF g1.raises \/ g2.raises THEN NoVariables
                                     ELSE g2.variables_cache]
    /\ UNCHANGED <<now, trackerVars, tempVars, call, tcall, onlineVars,
                   last_grafana_refresh, discord_client, grafana_client,
                   pc, alerts, cycle>>

\* Time passes: a check interval, or more than the refresh interval
GrafanaTick(seconds) ==
    /\ gcall.op /= "none"
    /\ now < StartTime + MaxTicks * DEFAULT_CHECK_INTERVAL
    /\ now' = now + seconds
    /\ gcall' = NoGCall
    /\ UNCHANGED <<configVars, trackerVars, tempVars, call, tcall, onlineVars,
                   settingVars, last_grafana_refresh, discord_client,
                   grafana_client, variables_cache, last_refresh_time,
                   pc, alerts, cycle>>

GrafanaNext ==
    \/ \E f1 \in GrafanaOutcomes, f2 \in GrafanaOutcomes : CallUpdateConfig(f1, f2)
    \/ \E seconds \in {DEFAULT_CHECK_INTERVAL, GRAFANA_REFRESH_INTERVAL + 1} :
           GrafanaTick(seconds)

GrafanaSpec == GrafanaInit /\ [][GrafanaNext]_vars

----------------------------------------------------------------------------
(* Properties of determine_state, checked under SensorSpec.  They are stated *)
(* on the record of the last call: its arguments (call.ds, call.si), the     *)
(* time of the call (call.t), the tracker before the call (call.pre) and     *)
(* the value returned (call.ret); the tracker's variables hold the state     *)
(* after the call.  temp_config does not change under SensorSpec.            *)

Determined == call.op = "determine_state"

Elapsed == call.t - call.pre.stabilization_start_time

\* The rate of change of the window of the call, compared with a/b degrees per minute
RateGreater(a, b) == b * RateNum(call.ds) > 10 * a * RateDen(call.ds)

RateLess(a, b) == b * RateNum(call.ds) < 10 * a * RateDen(call.ds)

RateBelowStabilizationThreshold ==
    Abs(RateNum(call.ds)) < temp_config.stabilization_threshold * RateDen(call.ds)

Latest == Last(call.ds).value + temp_config.calibration_offset

\* The stabilizing branch returns: the flag was set, min_stabilization_time has
\* elapsed, the rate is below the threshold, and either the latest reading is
\* realistic or the misposition time is exceeded
StabilizingBranchReturns ==
    /\ call.pre.stabilization_mode
    /\ Elapsed >= temp_config.min_stabilization_time
    /\ RateBelowStabilizationThreshold
    /\ \/ Latest >= temp_config.min_realistic_temp
       \/ Elapsed > temp_config.misposition_time_threshold * 60

\* C1, as stated: from Disconnected, a window of at least two readings with a
\* rate above 0.5 per minute returns Connected and leaves the stabilization
\* flag set, whatever the flag, the start time and the thresholds were.
C1_AsStated ==
    (Determined /\ call.pre.state = DISCONNECTED /\ Len(call.ds) >= 2
        /\ TimeDiff(call.ds) > 0 /\ RateGreater(1, 2))
    => (call.ret = CONNECTED /\ stabilization_mode)

\* C1, amended: the same, unless the stabilizing branch returns first; then the
\* call returns Connected or Mispositioned and the flag is cleared.
C1_RisingFromDisconnected ==
    (Determined /\ call.pre.state = DISCONNECTED /\ Len(call.ds) >= 2
        /\ TimeDiff(call.ds) > 0 /\ RateGreater(1, 2))
    => IF StabilizingBranchReturns
       THEN call.ret \in {CONNECTED, MISPOSITIONED} /\ ~stabilization_mode
       ELSE call.ret = CONNECTED /\ stabilization_mode
                /\ stabilization_start_time = call.t

\* C1, witness: the flag was already set when the rising window arrived, the
\* rate was below the stabilization threshold, and the flag is set afterwards
C1_Witness ==
    /\ Determined /\ call.pre.state = DISCONNECTED /\ Len(call.ds) >= 2
    /\ TimeDiff(call.ds) > 0 /\ RateGreater(1, 2)
    /\ call.pre.stabilization_mode
    /\ RateBelowStabilizationThreshold
    /\ ~StabilizingBranchReturns
    /\ call.ret = CONNECTED /\ stabilization_mode

\* C2, as stated: from Connected, a window of at least two readings with a rate
\* of -1.0 per minute or less returns Disconnected.
C2_AsStated ==
    (Determined /\ call.pre.state = CONNECTED /\ Len(call.ds) >= 2
        /\ TimeDiff(call.ds) > 0 /\ ~RateGreater(-1, 1))
    => call.ret = DISCONNECTED

\* C2, amended: from Connected, a rate strictly below -1.0 per minute returns
\* Disconnected unless the stabilizing branch returns first.
C2_DroppingFromConnected ==
    (Determined /\ call.pre.state = CONNECTED /\ Len(call.ds) >= 2
        /\ TimeDiff(call.ds) > 0 /\ RateLess(-1, 1)
        /\ ~StabilizingBranchReturns)
    => call.ret = DISCONNECTED

\* C2, witness: a drop faster than 1.0 per minute, far from the room
\* temperature, while the flag is set and the rate is below the threshold
C2_Witness ==
    /\ Determined /\ call.pre.state = CONNECTED /\ Len(call.ds) >= 2
    /\ TimeDiff(call.ds) > 0 /\ RateLess(-1, 1)
    /\ call.pre.stabilization_mode
    /\ RateBelowStabilizationThreshold
    /\ ~StabilizingBranchReturns
    /\ Len(call.si) = 0
    /\ call.ret = DISCONNECTED

\* C3: from Unknown with a non-empty primary window, the result is Connected if
\* latest >= min_realistic_temp, else Disconnected if the reference window is
\* non-empty and |latest - last reference value| < room_temp_threshold, for
\* every value of the last reference reading (0 included), else Unknown.
C3_InitialDetermination ==
    (Determined /\ call.pre.state = UNKNOWN /\ Len(call.ds) >= 1)
    => call.ret =
         IF Latest >= temp_config.min_realistic_temp THEN CONNECTED
         ELSE IF Len(call.si) >= 1
                 /\ Abs(Latest - Last(call.si).value) < temp_config.room_temp_threshold
              THEN DISCONNECTED
         ELSE UNKNOWN

\* C4: stabilizing, state not Unknown, at least two readings, at least
\* min_stabilization_time elapsed, |rate| below the threshold, latest below
\* min_realistic_temp and more than misposition_time_threshold minutes
\* elapsed: the call returns Mispositioned and clears the flag.
C4_Mispositioned ==
    (Determined /\ call.pre.stabilization_mode /\ call.pre.state /= UNKNOWN
        /\ Len(call.ds) >= 2
        /\ Elapsed >= temp_config.min_stabilization_time
        /\ RateBelowStabilizationThreshold
        /\ Latest < temp_config.min_realistic_temp
        /\ Elapsed > temp_config.misposition_time_threshold * 60)
    => (call.ret = MISPOSITIONED /\ ~stabilization_mode)

\* C4, witness: such a call, made while the stored state is Connected
C4_Witness ==
    /\ Determined /\ call.pre.stabilization_mode /\ call.pre.state = CONNECTED
    /\ Len(call.ds) >= 2
    /\ Elapsed >= temp_config.min_stabilization_time
    /\ RateBelowStabilizationThreshold
    /\ Latest < temp_config.min_realistic_temp
    /\ Elapsed > temp_config.misposition_time_threshold * 60
    /\ call.ret = MISPOSITIONED

\* C5: while the flag is set and fewer than min_stabilization_time seconds have
\* elapsed, no call of determine_state clears the flag or returns Mispositioned.
C5_NoEarlyExit ==
    (Determined /\ call.pre.stabilization_mode
        /\ Elapsed < temp_config.min_stabilization_time)
    => (stabilization_mode /\ call.ret /= MISPOSITIONED)

\* C5, witness: a call one check interval after stabilization started, with a
\* settled window below the realistic temperature, that leaves the flag set
C5_Witness ==
    /\ Determined /\ call.pre.stabilization_mode
    /\ Elapsed > 0
    /\ Elapsed < temp_config.min_stabilization_time
    /\ call.pre.state /= UNKNOWN /\ Len(call.ds) >= 2
    /\ RateBelowStabilizationThreshold
    /\ Latest < temp_config.min_realistic_temp
    /\ stabilization_mode

\* C6: with an empty primary window determine_state returns Disconnected, for
\* every stored state and reference window, and leaves the stored state, the
\* stabilization flag and the stabilization start time as they were.
C6_EmptyWindow ==
    (Determined /\ Len(call.ds) = 0)
    => /\ call.ret = DISCONNECTED
       /\ state = call.pre.state
       /\ stabilization_mode = call.pre.stabilization_mode
       /\ stabilization_start_time = call.pre.stabilization_start_time

\* C6, witness: an empty primary window with a reference reading, while the
\* stored state is Connected and the tracker is stabilizing
C6_Witness ==
    /\ Determined /\ Len(call.ds) = 0 /\ Len(call.si) >= 1
    /\ call.pre.state = CONNECTED
    /\ call.pre.stabilization_mode
    /\ stabilization_mode
    /\ call.ret = DISCONNECTED

----------------------------------------------------------------------------
(* Spec, on the record of the current iteration of run (cycle): whether      *)
(* process_temperature_data got past its early return (cycle.evaluated), the *)
(* state determine_state returned, what update_state returned, the fields of *)
(* the trackers when the iteration began, and the alerts sent so far.        *)

AlertsOfKind(kind) == {i \in DOMAIN alerts : alerts[i].kind = kind}

\* The iteration evaluated the sensor state as Connected and the tracker is
\* not stabilizing after the evaluation
ConnectedAndSettled ==
    cycle.evaluated /\ cycle.new_sensor_state = CONNECTED /\ ~stabilization_mode

\* C7: in every poll cycle the temperature tracker is updated only if the
\* state computed in the cycle is Connected and the stabilization flag is not
\* set after the evaluation; in every other cycle its current and previous
\* band are left unchanged and no temperature alert is sent.
C7_TemperatureGate ==
    /\ cycle.temp_updated => ConnectedAndSettled
    /\ ~ConnectedAndSettled
       => /\ current_state = cycle.pre_current
          /\ previous_state = cycle.pre_previous
          /\ AlertsOfKind("temperature") = {}

\* C7, witness: a cycle that computes Connected while the tracker stabilizes,
\* with a band classified in an earlier cycle; the band is not updated
C7_Witness ==
    /\ cycle.evaluated /\ cycle.new_sensor_state = CONNECTED
    /\ stabilization_mode
    /\ ~cycle.temp_updated
    /\ cycle.pre_current /= None
    /\ current_state = cycle.pre_current

----------------------------------------------------------------------------
(* Properties of TemperatureTracker.update_state, checked under              *)
(* TemperatureSpec, on the record of the last call (tcall): the reading      *)
(* passed, the configuration at the time of the call (tcall.cfg), current    *)
(* and previous before the call, the value returned, and the value the call  *)
(* before it returned (tcall.prev_ret).                                      *)

TemperatureUpdated == tcall.op = "update_state"

\* The band of the calibrated value of the call
CalledBand ==
    classify_temperature(tcall.temperature + tcall.cfg.calibration_offset,
                         tcall.cfg)

\* C9: the first call reports changed = false for every value; and a call whose
\* calibrated value falls in the current band reports changed = false and
\* leaves current and previous as they were.
C9_NoChangeReported ==
    /\ (TemperatureUpdated /\ tcall.pre_current = None) => tcall.ret = FALSE
    /\ (TemperatureUpdated /\ CalledBand = tcall.pre_current)
       => /\ tcall.ret = FALSE
          /\ current_state = tcall.pre_current
          /\ previous_state = tcall.pre_previous

\* C9, witness: a first call, with a reading in the Hot band
C9_Witness ==
    /\ TemperatureUpdated /\ tcall.pre_current = None
    /\ current_state = HOT /\ previous_state = None
    /\ tcall.ret = FALSE

\* C10: after a prior classification, a call whose calibrated value falls in
\* another band than the current one reports changed = true, sets current to
\* the new band and previous to the old current band; a call that follows it
\* immediately with a value in the new band reports changed = false.
C10_CrossingReportedOnce ==
    /\ (TemperatureUpdated /\ tcall.pre_current /= None
            /\ CalledBand /= tcall.pre_current)
       => /\ tcall.ret = TRUE
          /\ current_state = CalledBand
          /\ previous_state = tcall.pre_current
    /\ (TemperatureUpdated /\ tcall.prev_ret = TRUE
            /\ CalledBand = tcall.pre_current)
       => tcall.ret = FALSE

\* C10, witness: a call in the band entered by the call before it, which
\* reported the crossing
C10_Witness ==
    /\ TemperatureUpdated /\ tcall.prev_ret = TRUE
    /\ CalledBand = tcall.pre_current
    /\ tcall.pre_previous /= None
    /\ tcall.ret = FALSE

\* The band boundaries in ascending order of band, and their bands
Boundaries(cfg) == <<cfg.cold_max, cfg.cool_max, cfg.average_max, cfg.warm_max>>

BoundaryBands == <<COLD, COOL, AVERAGE, WARM>>

Ordered(cfg) ==
    cfg.cold_max < cfg.cool_max /\ cfg.cool_max < cfg.average_max
        /\ cfg.average_max < cfg.warm_max

\* The band of the first boundary that is >= t, Hot if there is none
FirstBoundaryBand(t, cfg) ==
    LET reached == {i \in 1..4 : Boundaries(cfg)[i] >= t}
    IN IF reached = {} THEN HOT
       ELSE BoundaryBands[CHOOSE i \in reached : \A j \in reached : i <= j]

\* The calibrated value that the last call classified
Calibrated == tcall.temperature + tcall.cfg.calibration_offset

\* C11: for a configuration with cold_max < cool_max < average_max < warm_max
\* and any temperature, classify_temperature returns one band, that of the
\* first boundary in the order cold_max, cool_max, average_max, warm_max that
\* is >= the temperature, and Hot above warm_max; a value equal to a boundary
\* belongs to the lower band.
C11_FirstBoundary ==
    (TemperatureUpdated /\ Ordered(tcall.cfg))
    => /\ current_state \in TemperatureState
       /\ current_state = FirstBoundaryBand(Calibrated, tcall.cfg)
       /\ \A i \in 1..4 : Calibrated = Boundaries(tcall.cfg)[i]
                               => current_state = BoundaryBands[i]

\* C11, witness: a value equal to cool_max, as overridden by the dashboard,
\* is classified Cool
C11_Witness ==
    /\ TemperatureUpdated /\ tcall.cfg = DashboardConfig
    /\ Calibrated = tcall.cfg.cool_max
    /\ current_state = COOL

----------------------------------------------------------------------------
(* Spec again: the liveness check and the windows of the iteration *)

\* The iteration queried the windows and the primary window came back empty
\* (the query failed or found nothing)
EmptyPrimaryWindow == cycle.queried /\ ~cycle.evaluated /\ ~cycle.raised

\* C12: when the primary-sensor query fails or returns no data in a cycle
\* while the source is live, the empty window is evaluated by the sensor
\* tracker, so that the stored sensor state after the cycle is Disconnected.
C12_EmptyWindowDisconnects ==
    (pi_online /\ EmptyPrimaryWindow) => state = DISCONNECTED


\* The iteration issued the liveness query and it returned another status
\* than the stored flag
LivenessTransition ==
    cycle.checked /\ cycle.online_status /= cycle.pre_pi_online

\* C13: a liveness alert is sent in a cycle exactly when a fresh liveness
\* check returns a status different from the stored flag (there being a
\* Discord client to send it to; without one no alert is sent), and after a
\* fresh check the stored flag equals the checked status; a check that
\* returns the stored status, a first check that finds the source offline
\* included, sends no alert.
C13_LivenessAlert ==
    /\ IF LivenessTransition /\ discord_client
       THEN /\ Cardinality(AlertsOfKind("raspberry_pi")) = 1
            /\ \A i \in AlertsOfKind("raspberry_pi") :
                   alerts[i] = RaspberryPiAlert(cycle.online_status)
       ELSE AlertsOfKind("raspberry_pi") = {}
    /\ cycle.checked => pi_online = cycle.online_status
    /\ (cycle.checked /\ ~cycle.online_status /\ ~cycle.pre_pi_online)
       => AlertsOfKind("raspberry_pi") = {}

\* C13, witness: a fresh check finds offline a source that was online, the
\* flag is cleared and the one alert is sent
C13_Witness ==
    /\ cycle.checked /\ cycle.pre_pi_online /\ ~cycle.online_status
    /\ discord_client
    /\ ~pi_online
    /\ Cardinality(AlertsOfKind("raspberry_pi")) = 1

\* The liveness check of the iteration has returned
CheckReturned == pc \in {"process", "sleep", "cancelled"}

\* C14: in every cycle in which the flag returned by the liveness check is
\* false, no reading window is queried, the sensor state, the stabilization
\* flag and the temperature band are left unchanged, and no sensor-state or
\* temperature alert is sent.
C14_OfflineSkipsProcessing ==
    (CheckReturned /\ ~pi_online)
    => /\ ~cycle.queried /\ ~cycle.evaluated
       /\ state = cycle.pre_state
       /\ stabilization_mode = cycle.pre_stabilization_mode
       /\ current_state = cycle.pre_current
       /\ previous_state = cycle.pre_previous
       /\ AlertsOfKind("sensor_state") = {}
       /\ AlertsOfKind("temperature") = {}

\* C14, witness: the source goes offline while the sensor is Connected with a
\* band classified; the iteration goes to sleep with both kept
C14_Witness ==
    /\ pc = "sleep" /\ ~pi_online
    /\ cycle.checked /\ cycle.pre_pi_online
    /\ state = CONNECTED /\ current_state /= None
    /\ ~cycle.queried


\* Seconds between the previous liveness query and the iteration
SinceLastOnlineCheck == now - cycle.pre_last_online_check

\* C15: the liveness query is issued only when at least 180 seconds have
\* elapsed since the previous one; in every cycle that comes sooner,
\* check_raspberry_pi_online returns the stored flag without querying and
\* without sending an alert.
C15_QueryEveryThreeMinutes ==
    /\ cycle.checked => SinceLastOnlineCheck >= 180
    /\ (CheckReturned /\ SinceLastOnlineCheck < 180)
       => /\ ~cycle.checked
          /\ pi_online = cycle.pre_pi_online
          /\ last_online_check = cycle.pre_last_online_check
          /\ AlertsOfKind("raspberry_pi") = {}

\* C15, witness: a cycle one minute after a query that found the source
\* online goes on to process the data without another query
C15_Witness ==
    /\ pc = "process"
    /\ SinceLastOnlineCheck = 60
    /\ ~cycle.checked
    /\ pi_online /\ cycle.pre_pi_online

\* C18: the temperature embedded in the description of a temperature alert is
\* the calibrated temperature, the latest reading plus calibration_offset,
\* the value that was classified into the band the title names.
C18_DescriptionCalibrated ==
    \A i \in AlertsOfKind("temperature") :
        alerts[i].description.values[1]
            = cycle.latest_temp + temp_config.calibration_offset


\* C17: whenever the orchestrator surfaces an unrecoverable error, missing
\* startup configuration (the InfluxDB connection settings) included, it
\* attempts to send an error alert to Discord before the process terminates.
C17_ErrorAlertBeforeExit ==
    (pc = "terminated" /\ discord_client) => AlertsOfKind("error") /= {}

\* C20: when the run loop is cancelled while it sleeps between two cycles, it
\* terminates without starting another cycle, without changing any tracker
\* state and without sending an error alert.
C20_CancelTerminates ==
    /\ [](pc = "cancelled" => AlertsOfKind("error") = {})
    /\ [][pc = "cancelled" => FALSE]_vars
    /\ [][pc' = "cancelled"
            => /\ pc = "sleep"
               /\ UNCHANGED <<trackerVars, tempVars, temp_config, alerts>>]_vars

\* C20, witness: the loop is cancelled in the sleep of a cycle that left the
\* sensor Connected with a band classified
C20_Witness ==
    /\ pc = "cancelled"
    /\ state = CONNECTED /\ current_state /= None
    /\ cycle.evaluated

----------------------------------------------------------------------------
(* GrafanaSpec, on the record of the last call of update_config_from_grafana *)
(* (gcall): the monitor before the call and the variables it read.           *)

Refreshed == gcall.op = "update_config_from_grafana"

\* A value that int(), float() and int(float()) refuse
Unconvertible(v) == v.kind = "str"

\* C16: during a configuration refresh an override that cannot be converted
\* to the type of its field is skipped and the field keeps the value it had
\* before the refresh, for every field of TemperatureConfig and for
\* check_interval and offline_threshold.
C16_UnconvertibleSkipped ==
    Refreshed
    => /\ \A f \in ConfigFields :
              Unconvertible(gcall.temp_vars[f])
              => temp_config[f] = gcall.pre.temp_config[f]
       /\ Unconvertible(gcall.variables.check_interval)
          => check_interval = gcall.pre.check_interval
       /\ Unconvertible(gcall.variables.offline_threshold)
          => offline_threshold = gcall.pre.offline_threshold

\* C16, witness: a refresh reads a text for min_stabilization_time, keeps the
\* field and applies the calibration offset of the same dashboard
C16_Witness ==
    /\ Refreshed
    /\ Unconvertible(gcall.temp_vars.min_stabilization_time)
    /\ temp_config.min_stabilization_time = gcall.pre.temp_config.min_stabilization_time
    /\ temp_config.calibration_offset /= gcall.pre.temp_config.calibration_offset

----------------------------------------------------------------------------
(* TemperatureSpec, on the record of the last get_alert_info (tcall.info) *)

AlertInfoRequested == tcall.op = "get_alert_info"

\* The fixed colour of a band
BandColour(band) ==
    CASE band = COLD -> DISCORD_COLORS.blue
      [] band = COOL -> DISCORD_COLORS.cyan
      [] band = AVERAGE -> DISCORD_COLORS.green
      [] band = WARM -> DISCORD_COLORS.yellow
      [] band = HOT -> DISCORD_COLORS.red

\* C19: get_alert_info returns absent when no classification has happened
\* yet; otherwise its title is "Temperature is <band>" and its colour the
\* fixed colour of the band, the band being the tracker's stored current
\* band, whatever temperature is passed.
C19_AlertInfoOfCurrentBand ==
    AlertInfoRequested
    => IF current_state = None
       THEN tcall.info = NoAlertInfo
       ELSE /\ tcall.info /= NoAlertInfo
            /\ tcall.info.title = <<"Temperature is", current_state>>
            /\ tcall.info.color = BandColour(current_state)

\* C19, witness: the tracker holds Hot and get_alert_info is passed a
\* temperature of the Cold band; the title and the colour are those of Hot
C19_Witness ==
    /\ AlertInfoRequested
    /\ current_state = HOT
    /\ classify_temperature(Calibrated, tcall.cfg) = COLD
    /\ tcall.info.title = <<"Temperature is", HOT>>
    /\ tcall.info.color = DISCORD_COLORS.red

----------------------------------------------------------------------------
(* Properties of SensorStateTracker.update_state and of the fields of the   *)
(* sensor tracker, checked under SensorSpec.                                *)

StateUpdated == call.op = "update_state"

\* The determine_state before the update set or cleared the stabilization flag
FlagToggled == call.flag_before /= call.pre.stabilization_mode

\* C21: update_state reports changed exactly when the given state differs from
\* the stored state, the stored state is the given state afterwards, the
\* stabilization flag and start time are as they were, and when the preceding
\* determine_state only set or cleared the flag and computed the stored state,
\* changed is false.
C21_UpdateState ==
    StateUpdated =>
        /\ call.changed <=> (call.ret /= call.pre.state)
        /\ state = call.ret
        /\ stabilization_mode = call.pre.stabilization_mode
        /\ stabilization_start_time = call.pre.stabilization_start_time
        /\ (FlagToggled /\ call.ret = call.pre.state) => ~call.changed

\* C21, witness: determine_state left stabilization from Connected and
\* returned Connected; the update_state that follows reports no change
C21_Witness ==
    /\ StateUpdated
    /\ call.flag_before /\ ~call.pre.stabilization_mode
    /\ call.pre.state = CONNECTED /\ call.ret = CONNECTED
    /\ state = CONNECTED
    /\ ~call.changed

----------------------------------------------------------------------------
(* The stabilization fields in the poll loop, checked under Spec.  The      *)
(* window of an evaluation is not kept in the state: a step is described by *)
(* the windows process_temperature_data can have read in it.                *)

\* The rate of change of window ds is above a/b degrees per minute
RateOver(ds, a, b) == b * RateNum(ds) > 10 * a * RateDen(ds)

\* |rate of change| of ds is below the configured stabilization_threshold
RateUnderThreshold(ds) ==
    Abs(RateNum(ds)) < temp_config.stabilization_threshold * RateDen(ds)

\* This step evaluates a window of at least two readings rising faster than
\* 0.5 per minute while the stored state is Disconnected, and returns Connected
RisingEvaluation ==
    \E ds \in PrimaryWindows, si \in RoomWindows :
        /\ ProcessStep(ds, si)
        /\ state = DISCONNECTED
        /\ Len(ds) >= 2
        /\ RateOver(ds, 1, 2)
        /\ cycle'.new_sensor_state = CONNECTED

\* This step evaluates a window whose |rate| is below the threshold, at least
\* min_stabilization_time seconds after stabilization started
SettledEvaluation ==
    \E ds \in PrimaryWindows, si \in RoomWindows :
        /\ ProcessStep(ds, si)
        /\ Len(ds) >= 2
        /\ stabilization_start_time /= NoTime
        /\ now - stabilization_start_time >= temp_config.min_stabilization_time
        /\ RateUnderThreshold(ds)

\* C22: the stabilization flag is set, and its start time assigned, only by an
\* evaluation that takes the Disconnected->Connected branch; the flag is
\* cleared only by an evaluation made at least min_stabilization_time seconds
\* after stabilization started, with |rate| below stabilization_threshold; no
\* other step of the loop changes the flag or the start time.
C22_StabilizationFrame ==
    [][/\ (~stabilization_mode /\ stabilization_mode') =>
              (RisingEvaluation /\ stabilization_start_time' = now)
       /\ (stabilization_start_time' /= stabilization_start_time) =>
              (RisingEvaluation /\ stabilization_mode'
                  /\ stabilization_start_time' = now)
       /\ (stabilization_mode /\ ~stabilization_mode') => SettledEvaluation
       /\ (pc /= "process" \/ ~cycle'.evaluated) =>
              UNCHANGED <<stabilization_mode, stabilization_start_time>>]_vars

\* C22, witness: an iteration that began stabilizing and whose evaluation
\* cleared the flag
C22_Witness ==
    /\ pc = "sleep"
    /\ cycle.evaluated
    /\ cycle.pre_stabilization_mode
    /\ ~stabilization_mode
    /\ stabilization_start_time /= NoTime

----------------------------------------------------------------------------
(* The order of the branches of determine_state, checked under SensorSpec.  *)

\* A reference reading is present within room_temp_threshold of the
\* calibrated latest reading of the call
ReferenceClose ==
    /\ Len(call.si) >= 1
    /\ Abs(Latest - Last(call.si).value) < temp_config.room_temp_threshold

\* C23: stored state Connected, flag set, at least two readings, at least
\* min_stabilization_time elapsed, |rate| below the threshold and latest at or
\* above min_realistic_temp: the call returns Connected and clears the flag,
\* whether or not a reference reading is close to latest.
C23_ExitBeforeDisconnect ==
    (Determined /\ call.pre.state = CONNECTED /\ call.pre.stabilization_mode
        /\ Len(call.ds) >= 2
        /\ Elapsed >= temp_config.min_stabilization_time
        /\ RateBelowStabilizationThreshold
        /\ Latest >= temp_config.min_realistic_temp)
    => (call.ret = CONNECTED /\ ~stabilization_mode)

\* C23, witness: such a call with a reference reading, not 0, within
\* room_temp_threshold of latest
C23_Witness ==
    /\ Determined /\ call.pre.state = CONNECTED /\ call.pre.stabilization_mode
    /\ Len(call.ds) >= 2
    /\ Elapsed >= temp_config.min_stabilization_time
    /\ RateBelowStabilizationThreshold
    /\ Latest >= temp_config.min_realistic_temp
    /\ ReferenceClose /\ Last(call.si).value /= 0
    /\ call.ret = CONNECTED /\ ~stabilization_mode


\* C24: stored state Connected, flag not set, at least two readings with a
\* rate of -1.0 per minute or more, and a reference reading present within
\* room_temp_threshold of latest: the call returns Disconnected, whether or
\* not latest is at or above min_realistic_temp.
C24_DisconnectNearRoom ==
    (Determined /\ call.pre.state = CONNECTED /\ ~call.pre.stabilization_mode
        /\ Len(call.ds) >= 2
        /\ ~RateLess(-1, 1)
        /\ ReferenceClose)
    => call.ret = DISCONNECTED


\* C25: stored state Connected and a primary window of exactly one reading:
\* no rate-based branch is taken and the result is that of the fallback
\* determination, Connected whenever latest is at or above min_realistic_temp,
\* whether or not a reference reading is close to latest; the stabilization
\* flag and start time are left as they were.
C25_SingleReadingFallsBack ==
    (Determined /\ call.pre.state = CONNECTED /\ Len(call.ds) = 1)
    => /\ call.ret = InitialDetermination(Latest, RoomTemp(call.si), temp_config)
       /\ Latest >= temp_config.min_realistic_temp => call.ret = CONNECTED
       /\ call.ret /= MISPOSITIONED
       /\ stabilization_mode = call.pre.stabilization_mode
       /\ stabilization_start_time = call.pre.stabilization_start_time

\* C25, witness: one realistic reading with a reference reading, not 0,
\* within room_temp_threshold of it, while Connected: Connected is returned
C25_Witness ==
    /\ Determined /\ call.pre.state = CONNECTED /\ Len(call.ds) = 1
    /\ Latest >= temp_config.min_realistic_temp
    /\ ReferenceClose /\ Last(call.si).value /= 0
    /\ call.ret = CONNECTED
    /\ stabilization_mode = call.pre.stabilization_mode


\* C26: the stored state starts as Unknown; determine_state leaves it as it
\* is; it changes only in update_state, which stores the value the
\* determine_state before it returned, with no time passing between the two.
C26_StateOwnedByUpdate ==
    /\ state = UNKNOWN
    /\ [][/\ call'.op = "determine_state" => state' = state
          /\ state' /= state =>
                /\ call.op = "determine_state"
                /\ call'.op = "update_state"
                /\ state' = call.ret
                /\ call.t = now /\ now' = now]_vars

\* C26, witness: update_state has stored the Connected that determine_state
\* computed from Disconnected, with the stabilization flag set
C26_Witness ==
    /\ StateUpdated
    /\ call.pre.state = DISCONNECTED
    /\ call.ret = CONNECTED
    /\ state = CONNECTED
    /\ call.changed
    /\ stabilization_mode


\* The first and the last reading of the window of the call carry the same time
SameTimestamp == Len(call.ds) >= 2 /\ TimeDiff(call.ds) = 0

\* C27: when the first and the last reading of the window carry the same
\* timestamp the rate is 0: from Connected the call returns Disconnected only
\* when a reference reading is close to latest, never for a drop in the
\* values; from Disconnected the call does not set the stabilization flag or
\* its start time, whatever the values in the window.
C27_ZeroElapsedRate ==
    (Determined /\ SameTimestamp)
    => /\ RateNum(call.ds) = 0
       /\ (call.pre.state = CONNECTED /\ call.ret = DISCONNECTED)
              => CloseToRoom(Latest, RoomTemp(call.si), temp_config)
       /\ call.pre.state = DISCONNECTED
              => /\ stabilization_mode => call.pre.stabilization_mode
                 /\ stabilization_start_time = call.pre.stabilization_start_time

\* C27, witness: from Connected, two readings with one timestamp, the second
\* far below the first and no reference reading: not Disconnected
C27_Witness ==
    /\ Determined /\ SameTimestamp
    /\ call.pre.state = CONNECTED
    /\ call.ds[1].value = 986 /\ Last(call.ds).value = 900
    /\ Len(call.si) = 0
    /\ call.ret /= DISCONNECTED

----------------------------------------------------------------------------
(* The configuration the trackers read, checked under Spec.                 *)

\* C28: in every state, and so at every evaluation of a tracker, the
\* configuration read through the Sensor State Tracker and the one read
\* through the Temperature Tracker equal, field by field, the monitor's
\* TemperatureConfig, also after a refresh that changed some of the fields or
\* that raised after writing them.
C28_OneConfiguration ==
    \A f \in ConfigFields :
        /\ sensor_temp_config[f] = temp_config[f]
        /\ tracker_temp_config[f] = temp_config[f]


\* C28, witness: the refresh of the iteration wrote a field of the
\* configuration and raised before it assigned the trackers' references; the
\* trackers were then evaluated, the temperature tracker included
C28_Witness ==
    /\ cycle.config_written
    /\ ~cycle.trackers_reassigned
    /\ cycle.evaluated
    /\ cycle.temp_updated
    /\ sensor_temp_config = temp_config
    /\ tracker_temp_config = temp_config

----------------------------------------------------------------------------
(* Mispositioned in the poll loop, checked under PollSpec.                  *)

\* determine_state returned Mispositioned
MispositionedReported == Determined /\ call.ret = MISPOSITIONED

\* The first Disconnected->Connected transition: the evaluation returned
\* Connected from Disconnected and started the first stabilization
FirstRisingTransition ==
    /\ Determined
    /\ call.pre.state = DISCONNECTED
    /\ call.pre.stabilization_start_time = NoTime
    /\ call.ret = CONNECTED
    /\ stabilization_mode
    /\ stabilization_start_time = call.t

\* A later iteration is not as C29 assumes: nothing was evaluated, or
\* the window had fewer than two readings, or the calibrated latest reading
\* was not below min_realistic_temp, or the rate was not below
\* stabilization_threshold, or stabilization was started again
OutsideAssumptions ==
    \/ call.op = "skipped"
    \/ /\ Determined
       /\ ~FirstRisingTransition
       /\ \/ Len(call.ds) < 2
          \/ Latest >= temp_config.min_realistic_temp
          \/ ~RateBelowStabilizationThreshold
          \/ /\ call.pre.stabilization_start_time /= NoTime
             /\ stabilization_start_time = call.t

\* C29: after the Disconnected->Connected transition, if every later
\* iteration evaluates a window of at least two readings whose calibrated
\* latest reading is below min_realistic_temp and whose rate is below
\* stabilization_threshold, determine_state eventually returns Mispositioned.
C29_MispositionEventuallyReported ==
    FirstRisingTransition ~> (MispositionedReported \/ OutsideAssumptions)


\* C30: determine_state returns Mispositioned only when the stored state,
\* which is what the evaluation before it returned, is not Mispositioned, and
\* only when the stabilization flag was set, which it clears; while the
\* stored state is Mispositioned the flag stays cleared, so that another
\* Mispositioned needs a Disconnected->Connected transition first.
C30_NoRepeatedMisposition ==
    /\ MispositionedReported =>
          /\ call.pre.state /= MISPOSITIONED
          /\ call.pre.stabilization_mode
          /\ ~stabilization_mode
    /\ state = MISPOSITIONED => ~stabilization_mode
    /\ (Determined /\ call.pre.state = MISPOSITIONED) =>
          (~call.pre.stabilization_mode /\ ~stabilization_mode)

\* C30, witness: the evaluation after a Mispositioned, on a settled window
\* below min_realistic_temp with the misposition time still exceeded, returns
\* something else
C30_Witness ==
    /\ Determined
    /\ call.pre.state = MISPOSITIONED
    /\ Len(call.ds) >= 2
    /\ RateBelowStabilizationThreshold
    /\ Latest < temp_config.min_realistic_temp
    /\ Elapsed > temp_config.misposition_time_threshold * 60
    /\ Elapsed >= temp_config.min_stabilization_time
    /\ call.ret /= MISPOSITIONED

----------------------------------------------------------------------------
(* The fields of the temperature tracker, checked under TemperatureSpec.    *)
(* tcall.bands holds the bands update_state has classified since            *)
(* construction.                                                            *)

\* C31: current is absent exactly when update_state has not been called;
\* previous is absent exactly when at most one distinct band has been
\* classified; and a previous that is present differs from current.
C31_TrackerFields ==
    /\ (current_state = None) <=> (tcall.bands = {})
    /\ (previous_state = None) <=> (Cardinality(tcall.bands) <= 1)
    /\ previous_state /= None => previous_state /= current_state
    /\ current_state /= None => current_state \in tcall.bands
    /\ previous_state /= None => previous_state \in tcall.bands

\* C31, witness: update_state has classified three bands, and was last called
\* with a value in the current band
C31_Witness ==
    /\ TemperatureUpdated
    /\ Cardinality(tcall.bands) >= 3
    /\ CalledBand = tcall.pre_current
    /\ previous_state /= None
    /\ previous_state /= current_state

----------------------------------------------------------------------------
(* A refresh with a value that cannot be converted, checked under           *)
(* GrafanaSpec.                                                             *)

\* A value the dashboard gives that int() and float() accept
Convertible(v) == v.kind \in {"int", "float"}

\* C32: in a configuration refresh every override that can be converted is
\* applied, to the fields of TemperatureConfig, to check_interval and to
\* offline_threshold, whatever the other values of the same refresh are.
C32_ValidOverridesApplied ==
    Refreshed
    => /\ \A f \in ConfigFields :
              Convertible(gcall.temp_vars[f])
              => temp_config[f] = IF f \in IntFields
                                  THEN ToInt(gcall.temp_vars[f])
                                  ELSE ToFloat(gcall.temp_vars[f])
       /\ Convertible(gcall.variables.check_interval)
          => check_interval = ToInt(gcall.variables.check_interval)
       /\ Convertible(gcall.variables.offline_threshold)
          => offline_threshold = ToInt(gcall.variables.offline_threshold)

====
